---- MODULE Spec2Model ----
(***************************************************************************)
(* Model of the session-info parser of packages/runtime/src/addon.cpp:     *)
(* SplitLines, Trim, LeadingIndent, PeekNextLine, TryParseInt64,           *)
(* TryParseDouble, ParseScalarToJs and the indentation-stack loop of       *)
(* ParseSessionYamlToJs.                                                   *)
(*                                                                         *)
(* A std::string is a sequence of one-character strings.  C++ positions    *)
(* are 0-based; the model's are 1-based, and std::string::npos is 0.       *)
(* A napi_value that is a container is an index into heap (the JS heap);   *)
(* a scalar napi_value is a record carried by value.  exception[p] is the  *)
(* JS exception call p left pending with napi_throw_error.                 *)
(***************************************************************************)
EXTENDS Integers, Sequences, FiniteSets, TLC

VARIABLES session, heap, exception, pc, lines, i, stack, root, ret, value, scalar

vars == <<session, heap, exception, pc, lines, i, stack, root, ret, value, scalar>>

\* ------------------------------------------------------------------------
\* Bounds of the model
\* ------------------------------------------------------------------------
MaxLines == 3       \* lines of a session text
MaxIndent == 1      \* leading spaces of a generated line
MaxValueLen == 4    \* characters of a scalar text drawn letter by letter
MaxLinesTwo == 2    \* lines of a session text parsed by two calls at once
MaxLinesFair == 2   \* lines of a session text whose call is followed to its end
MaxLinesDash == 3   \* lines of a session text of sequence items
MaxLinesBlank == 3  \* lines of a session text with blank lines
MaxTextLen == 4     \* characters of a text given to SplitLines on its own

\* ------------------------------------------------------------------------
\* Characters
\* ------------------------------------------------------------------------
SetMin(S) == CHOOSE m \in S : \A n \in S : m <= n

SetMax(S) == CHOOSE m \in S : \A n \in S : m >= n

\* std::isspace in the "C" locale (the vertical tab has no TLA+ escape and
\* is in no text of the model)
SpaceChars == {" ", "\t", "\n", "\r", "\f"}

IsSpace(ch) == ch \in SpaceChars

DigitChars == <<"0", "1", "2", "3", "4", "5", "6", "7", "8", "9">>

DigitSet == {DigitChars[d] : d \in 1..10}

IsDigit(ch) == ch \in DigitSet

DigitVal(ch) == (CHOOSE d \in 1..10 : DigitChars[d] = ch) - 1

HexLetters == <<"a", "b", "c", "d", "e", "f">>

HexUpper == <<"A", "B", "C", "D", "E", "F">>

HexDigitSet == DigitSet \cup {HexLetters[d] : d \in 1..6} \cup {HexUpper[d] : d \in 1..6}

HexVal(ch) ==
    IF IsDigit(ch) THEN DigitVal(ch)
    ELSE 9 + (CHOOSE d \in 1..6 : HexLetters[d] = ch \/ HexUpper[d] = ch)

\* the letters strtod compares without regard to case
FoldUpper == <<"I", "N", "F", "T", "Y", "A", "X", "E", "P">>

FoldLower == <<"i", "n", "f", "t", "y", "a", "x", "e", "p">>

ToLower(ch) ==
    IF \E d \in 1..9 : FoldUpper[d] = ch
    THEN FoldLower[CHOOSE d \in 1..9 : FoldUpper[d] = ch]
    ELSE ch

\* number of consecutive characters of s from position from on that are in
\* the set class
Span(s, from, class) ==
    SetMin({n \in 0..(Len(s) + 1 - from) :
               from + n > Len(s) \/ s[from + n] \notin class})

\* word (in lower case) stands at position from of s, in either case
MatchesAt(s, from, word) ==
    /\ from + Len(word) - 1 <= Len(s)
    /\ \A d \in 1..Len(word) : ToLower(s[from + d - 1]) = word[d]

\* std::string::find(ch): first position of ch, 0 (npos) when absent
Find(s, ch) ==
    IF \E d \in 1..Len(s) : s[d] = ch
    THEN SetMin({d \in 1..Len(s) : s[d] = ch})
    ELSE 0

\* std::string::substr(pos): the tail from the 1-based position from on
Tail1(s, from) == SubSeq(s, from, Len(s))

\* ------------------------------------------------------------------------
\* Trim, LeadingIndent, SplitLines, PeekNextLine
\* ------------------------------------------------------------------------
\* the second loop of Trim and the substr, start being the result of the first
TrimFrom(v, start) ==
    IF start = Len(v) THEN <<>>
    ELSE SubSeq(v, start + 1,
                SetMin({end \in start..Len(v) :
                           \A d \in (end + 1)..Len(v) : IsSpace(v[d])}))

Trim(v) == TrimFrom(v, Span(v, 1, SpaceChars))

IndentChars == {" ", "\t"}

LeadingIndent(v) == Span(v, 1, IndentChars)

RECURSIVE SplitLoop(_, _, _, _)
SplitLoop(text, ptr, out, current) ==
    IF ptr > Len(text) THEN Append(out, current)
    ELSE IF text[ptr] = "\r" THEN SplitLoop(text, ptr + 1, out, current)
    ELSE IF text[ptr] = "\n" THEN SplitLoop(text, ptr + 1, Append(out, current), <<>>)
    ELSE SplitLoop(text, ptr + 1, out, Append(current, text[ptr]))

\* SplitLines not emitting the fragment after the last line feed when it is
\* empty
SplitLinesDroppingEmptyTail(text) ==
    IF text # <<>> /\ text[Len(text)] = "\n"
    THEN SplitLoop(SubSeq(text, 1, Len(text) - 1), 1, <<>>, <<>>)
    ELSE SplitLoop(text, 1, <<>>, <<>>)

SplitLines(text) == SplitLoop(text, 1, <<>>, <<>>)

NextLineInfo(found, indent, starts_with_dash) ==
    [found |-> found, indent |-> indent, starts_with_dash |-> starts_with_dash]

\* line k of the vector, k counted from 0 as in the source
LineAt(ls, k) == ls[k + 1]

\* the return inside the loop of PeekNextLine, hits being the indices from
\* start on whose line is not blank
PeekFound(ls, hits) ==
    IF hits = {} THEN NextLineInfo(FALSE, 0, FALSE)
    ELSE NextLineInfo(TRUE, LeadingIndent(LineAt(ls, SetMin(hits))),
                      Trim(LineAt(ls, SetMin(hits)))[1] = "-")

\* PeekNextLine looking at line start only, blank or not
PeekNextLineNotSkippingBlank(ls, start) ==
    PeekFound(ls, {k \in start..(Len(ls) - 1) : k = start /\ Trim(LineAt(ls, k)) # <<>>})

\* start is the 0-based index of the first line looked at; the set of hits
\* is bound once
PeekNextLine(ls, start) ==
    CHOOSE info \in
        { PeekFound(ls, hits) :
             hits \in {{k \in start..(Len(ls) - 1) : Trim(LineAt(ls, k)) # <<>>}} } :
        TRUE

\* ------------------------------------------------------------------------
\* napi values
\* ------------------------------------------------------------------------
\* One record shape for every napi_value: t is the kind, b a boolean payload
\* (Bool: the value, Double: the sign is negative), n an integer payload
\* (Int64: the value, Double: the decimal mantissa, Ref: the heap index),
\* e the decimal exponent of a Double, s a text payload (String: the text,
\* Double: "inf" or "nan" when not finite).
JsValue(t, b, n, e, s) == [t |-> t, b |-> b, n |-> n, e |-> e, s |-> s]

NullPtr == JsValue("nullptr", FALSE, 0, 0, <<>>)

JsNull == JsValue("Null", FALSE, 0, 0, <<>>)

JsBool(b) == JsValue("Bool", b, 0, 0, <<>>)

JsInt64(n) == JsValue("Int64", FALSE, n, 0, <<>>)

JsDouble(d) == JsValue("Double", d.neg, d.n, d.e, d.cls)

JsString(s) == JsValue("String", FALSE, 0, 0, s)

JsRef(id) == JsValue("Ref", FALSE, id, 0, <<>>)

\* ------------------------------------------------------------------------
\* std::strtoll(value, &end, 10) and TryParseInt64
\* ------------------------------------------------------------------------
RECURSIVE DigitsToInt(_, _)
DigitsToInt(ds, acc) ==
    IF ds = <<>> THEN acc
    ELSE DigitsToInt(Tail(ds), 10 * acc + DigitVal(Head(ds)))

RECURSIVE HexToInt(_, _)
HexToInt(ds, acc) ==
    IF ds = <<>> THEN acc
    ELSE HexToInt(Tail(ds), 16 * acc + HexVal(Head(ds)))

Negated(neg, mag) == IF neg THEN 0 - mag ELSE mag

\* characters of a sign after position at: 1 for '+' or '-', else 0
SignLen(v, at) == IF at < Len(v) /\ v[at + 1] \in {"+", "-"} THEN 1 ELSE 0

\* the decimal digits of 2^63 - 1 (neg: of 2^63, the magnitude of LLONG_MIN)
LLongLimit(neg) ==
    <<9, 2, 2, 3, 3, 7, 2, 0, 3, 6, 8, 5, 4, 7, 7, 5, 8, 0, IF neg THEN 8 ELSE 7>>

\* sig, a digit string without leading zeros, exceeds the limit lim: compared
\* digit by digit, so that no number wider than a 32-bit integer is computed
ExceedsDigits(sig, lim) ==
    \/ Len(sig) > Len(lim)
    \/ /\ Len(sig) = Len(lim)
       /\ \E d \in 1..Len(lim) :
             /\ DigitVal(sig[d]) > lim[d]
             /\ \A c \in 1..(d - 1) : DigitVal(sig[c]) = lim[c]

OutOfLLong(ds, neg) ==
    ExceedsDigits(Tail1(ds, Span(ds, 1, {"0"}) + 1), LLongLimit(neg))

\* the conversion of the digits ds that end at position last
StrtollDigits(ds, neg, last) ==
    IF ds = <<>> THEN [consumed |-> 0, erange |-> FALSE, parsed |-> 0]
    ELSE IF OutOfLLong(ds, neg) THEN [consumed |-> last, erange |-> TRUE, parsed |-> 0]
    ELSE [consumed |-> last, erange |-> FALSE, parsed |-> Negated(neg, DigitsToInt(ds, 0))]

\* the digits from position first on, nd of them
StrtollFrom(v, neg, first, nd) ==
    StrtollDigits(SubSeq(v, first, first + nd - 1), neg, first + nd - 1)

\* after ws characters of white space: an optional sign, then the digits
StrtollSigned(v, ws, first) ==
    StrtollFrom(v, ws < Len(v) /\ v[ws + 1] = "-", first, Span(v, first, DigitSet))

StrtollSkipped(v, ws) == StrtollSigned(v, ws, ws + SignLen(v, ws) + 1)

\* consumed = end - value.c_str(); 0 when no conversion was performed
Strtoll(v) == StrtollSkipped(v, Span(v, 1, SpaceChars))

\* value.size() > 2 && value[0] == '0' && (value[1] == 'x' || value[1] == 'X')
HexPrefixed(v) == Len(v) > 2 /\ v[1] = "0" /\ (v[2] = "x" \/ v[2] = "X")

\* errno == ERANGE || end == value.c_str() || *end != '\0'
Rejected(r, size) == r.erange \/ r.consumed = 0 \/ r.consumed # size

Int64Result(r, size) ==
    IF Rejected(r, size) THEN [ok |-> FALSE, out |-> 0]
    ELSE [ok |-> TRUE, out |-> r.parsed]

TryParseInt64(v) ==
    IF v = <<>> THEN [ok |-> FALSE, out |-> 0]
    ELSE IF HexPrefixed(v) THEN [ok |-> FALSE, out |-> 0]
    ELSE Int64Result(Strtoll(v), Len(v))

\* ------------------------------------------------------------------------
\* std::strtod(value, &end) and TryParseDouble
\* ------------------------------------------------------------------------
RECURSIVE Pow(_, _)
Pow(base, k) == IF k = 0 THEN 1 ELSE base * Pow(base, k - 1)

RECURSIVE DecDigits(_)
DecDigits(n) == IF n < 10 THEN 1 ELSE 1 + DecDigits(n \div 10)

\* a finite double as (-1)^neg * n * 10^e with n not a multiple of 10, so
\* that equal numbers are equal records; zero is n = 0, e = 0
RECURSIVE Dec(_, _, _)
Dec(neg, n, e) ==
    IF n = 0 THEN [neg |-> neg, n |-> 0, e |-> 0, cls |-> <<>>]
    ELSE IF n % 10 = 0 THEN Dec(neg, n \div 10, e + 1)
    ELSE [neg |-> neg, n |-> n, e |-> e, cls |-> <<>>]

\* m * 2^k as a decimal: m * 2^k for k >= 0, m * 5^(-k) * 10^k for k < 0
Bin(neg, m, k) ==
    IF k >= 0 THEN Dec(neg, m * Pow(2, k), 0) ELSE Dec(neg, m * Pow(5, 0 - k), k)

\* the result is outside the range of a normal double (HUGE_VAL or an
\* underflow; the decimal exponent stands for the exact limits DBL_MAX and
\* DBL_MIN, which no text within the bounds comes near)
OutOfDouble(d) ==
    /\ d.n # 0
    /\ \/ DecDigits(d.n) + d.e - 1 > 308
       \/ DecDigits(d.n) + d.e - 1 < 0 - 308

NoConversion == [consumed |-> 0, erange |-> FALSE, parsed |-> Dec(FALSE, 0, 0)]

Converted(consumed, d) ==
    [consumed |-> consumed, erange |-> OutOfDouble(d), parsed |-> d]

\* "inf", "infinity" or "nan" (cls), len characters ending the conversion
Special(neg, consumed, cls) ==
    [consumed |-> consumed, erange |-> FALSE,
     parsed |-> [neg |-> neg, n |-> 0, e |-> 0, cls |-> cls]]

\* an exponent part: [len |-> characters consumed, val |-> its value]
NoExponent == [len |-> 0, val |-> 0]

ExponentValue(v, at, first, nd) ==
    IF nd = 0 THEN NoExponent
    ELSE [len |-> first + nd - at,
          val |-> Negated(v[at + 1] = "-",
                          DigitsToInt(SubSeq(v, first, first + nd - 1), 0))]

ExponentDigits(v, at, first) == ExponentValue(v, at, first, Span(v, first, DigitSet))

\* the exponent part at position at of v, introduced by the letter mark; it
\* is not consumed unless a digit follows the letter and the optional sign
ExponentAt(v, at, mark) ==
    IF at > Len(v) \/ ToLower(v[at]) # mark THEN NoExponent
    ELSE ExponentDigits(v, at, at + SignLen(v, at) + 1)

\* a mantissa: [len |-> characters consumed, ds |-> its digits, frac |->
\* digits after the point]; len = 0 when there is no digit
NoMantissa == [len |-> 0, ds |-> <<>>, frac |-> 0]

MantissaFrac(v, at, ni, nf) ==
    IF ni + nf = 0 THEN NoMantissa
    ELSE [len  |-> ni + 1 + nf,
          ds   |-> SubSeq(v, at, at + ni - 1) \o SubSeq(v, at + ni + 1, at + ni + nf),
          frac |-> nf]

MantissaInt(v, at, ni, class) ==
    IF at + ni <= Len(v) /\ v[at + ni] = "."
    THEN MantissaFrac(v, at, ni, Span(v, at + ni + 1, class))
    ELSE IF ni = 0 THEN NoMantissa
    ELSE [len |-> ni, ds |-> SubSeq(v, at, at + ni - 1), frac |-> 0]

\* digits of the class, an optional point and more digits at position at
MantissaAt(v, at, class) == MantissaInt(v, at, Span(v, at, class), class)

HexValue(neg, upto, m, ex) ==
    Converted(upto + ex.len, Bin(neg, HexToInt(m.ds, 0), ex.val - 4 * m.frac))

\* a hexadecimal floating constant: "0x", the mantissa m, a binary exponent
HexFloat(v, neg, at, m) ==
    HexValue(neg, at + 1 + m.len, m, ExponentAt(v, at + 2 + m.len, "p"))

DecValue(neg, upto, m, ex) ==
    Converted(upto + ex.len, Dec(neg, DigitsToInt(m.ds, 0), ex.val - m.frac))

\* a decimal floating constant: the mantissa m, a decimal exponent
DecFloat(v, neg, at, m) ==
    IF m.len = 0 THEN NoConversion
    ELSE DecValue(neg, at - 1 + m.len, m, ExponentAt(v, at + m.len, "e"))

\* the forms strtod accepts at position at, after white space and a sign:
\* infinity, inf, nan, a hexadecimal constant, a decimal constant (the
\* "nan(...)" form is left out: no text of the model has a parenthesis)
StrtodForm(v, neg, at) ==
    IF MatchesAt(v, at, <<"i", "n", "f", "i", "n", "i", "t", "y">>)
    THEN Special(neg, at + 7, <<"i", "n", "f">>)
    ELSE IF MatchesAt(v, at, <<"i", "n", "f">>)
    THEN Special(neg, at + 2, <<"i", "n", "f">>)
    ELSE IF MatchesAt(v, at, <<"n", "a", "n">>)
    THEN Special(neg, at + 2, <<"n", "a", "n">>)
    ELSE IF MatchesAt(v, at, <<"0", "x">>) /\ MantissaAt(v, at + 2, HexDigitSet).len > 0
    THEN HexFloat(v, neg, at, MantissaAt(v, at + 2, HexDigitSet))
    ELSE DecFloat(v, neg, at, MantissaAt(v, at, DigitSet))

StrtodSkipped(v, ws) ==
    StrtodForm(v, ws < Len(v) /\ v[ws + 1] = "-", ws + SignLen(v, ws) + 1)

Strtod(v) == StrtodSkipped(v, Span(v, 1, SpaceChars))

DoubleResult(r, size) ==
    IF Rejected(r, size) THEN [ok |-> FALSE, out |-> Dec(FALSE, 0, 0)]
    ELSE [ok |-> TRUE, out |-> r.parsed]

\* TryParseDouble without the test for a 0x prefix
TryParseDoubleAnyPrefix(v) ==
    IF v = <<>> THEN [ok |-> FALSE, out |-> Dec(FALSE, 0, 0)]
    ELSE DoubleResult(Strtod(v), Len(v))

TryParseDouble(v) ==
    IF v = <<>> THEN [ok |-> FALSE, out |-> Dec(FALSE, 0, 0)]
    ELSE IF HexPrefixed(v) THEN [ok |-> FALSE, out |-> Dec(FALSE, 0, 0)]
    ELSE DoubleResult(Strtod(v), Len(v))

\* ------------------------------------------------------------------------
\* ParseScalarToJs
\* ------------------------------------------------------------------------
\* if (TryParseDouble(value, &double_value)) ... else the text as a string
DoubleOrString(v, r) == IF r.ok THEN JsDouble(r.out) ELSE JsString(v)

\* if (TryParseInt64(value, &int_value)) ... else the double parse
Int64OrLater(v, r) ==
    IF r.ok THEN JsInt64(r.out) ELSE DoubleOrString(v, TryParseDouble(v))

\* ParseScalarToJs going on to the boolean and number rules with the text
\* between the quotes
ParseScalarUnquoting(v, sink_ok) ==
    IF ~sink_ok THEN NullPtr
    ELSE IF v = <<>> THEN JsNull
    ELSE IF Len(v) >= 2 /\ v[1] = "\"" /\ v[Len(v)] = "\""
         THEN IF SubSeq(v, 2, Len(v) - 1) = <<"t", "r", "u", "e">> THEN JsBool(TRUE)
              ELSE IF SubSeq(v, 2, Len(v) - 1) = <<"f", "a", "l", "s", "e">>
              THEN JsBool(FALSE)
              ELSE Int64OrLater(SubSeq(v, 2, Len(v) - 1),
                                TryParseInt64(SubSeq(v, 2, Len(v) - 1)))
    ELSE IF v = <<"t", "r", "u", "e">> THEN JsBool(TRUE)
    ELSE IF v = <<"f", "a", "l", "s", "e">> THEN JsBool(FALSE)
    ELSE Int64OrLater(v, TryParseInt64(v))

\* sink_ok: the one napi call of the branch taken returns napi_ok; when it
\* does not, NAPI_CALL throws and the function returns nullptr
ParseScalarToJs(v, sink_ok) ==
    IF ~sink_ok THEN NullPtr
    ELSE IF v = <<>> THEN JsNull
    ELSE IF Len(v) >= 2 /\ v[1] = "\"" /\ v[Len(v)] = "\""
         THEN JsString(SubSeq(v, 2, Len(v) - 1))
    ELSE IF v = <<"t", "r", "u", "e">> THEN JsBool(TRUE)
    ELSE IF v = <<"f", "a", "l", "s", "e">> THEN JsBool(FALSE)
    ELSE Int64OrLater(v, TryParseInt64(v))

\* ------------------------------------------------------------------------
\* The JS heap: objects and arrays
\* ------------------------------------------------------------------------
\* napi_create_object / napi_create_array: a new container at the next index
NewContainer(is_array) == [is_array |-> is_array, keys |-> <<>>, vals |-> <<>>]

\* napi_set_element(array, length, value) after napi_get_array_length
AppendToArray(h, array, val) ==
    [h EXCEPT ![array].vals = Append(@, val)]

\* the place of key among the keys ks, 0 when absent
KeyIndex(ks, key) ==
    IF \E d \in 1..Len(ks) : ks[d] = key
    THEN CHOOSE d \in 1..Len(ks) : ks[d] = key
    ELSE 0

SetAt(h, obj, at, key, val) ==
    IF at # 0 THEN [h EXCEPT ![obj].vals[at] = val]
    ELSE [h EXCEPT ![obj].keys = Append(@, key), ![obj].vals = Append(@, val)]

\* napi_set_property adding an entry for a key the object already has
SetObjectPropertyAppending(h, obj, key, val) == SetAt(h, obj, 0, key, val)

\* napi_set_property(obj, key, value): a key the object has keeps its place
\* and takes the new value, a new key goes last (no key of the model is an
\* array index, which a JS object would order first)
SetObjectProperty(h, obj, key, val) ==
    SetAt(h, obj, KeyIndex(h[obj].keys, key), key, val)

\* ------------------------------------------------------------------------
\* ParseSessionYamlToJs: one iteration of the loop over the lines
\* ------------------------------------------------------------------------
Context(indent, is_array, container) ==
    [indent |-> indent, is_array |-> is_array, container |-> container]

\* stack.back()
Back(stk) == stk[Len(stk)]

\* the pop phase keeping a context whose indent equals that of the line
RECURSIVE PopPhaseKeepingEqual(_, _)
PopPhaseKeepingEqual(stk, indent) ==
    IF Len(stk) > 1 /\ indent < stk[Len(stk)].indent
    THEN PopPhaseKeepingEqual(SubSeq(stk, 1, Len(stk) - 1), indent)
    ELSE stk

\* a pop phase that pops nothing
PopPhaseNever(stk, indent) == stk

\* while (stack.size() > 1 && indent <= stack.back().indent) stack.pop_back()
RECURSIVE PopPhase(_, _)
PopPhase(stk, indent) ==
    IF Len(stk) > 1 /\ indent <= stk[Len(stk)].indent
    THEN PopPhase(SubSeq(stk, 1, Len(stk) - 1), indent)
    ELSE stk

\* What an iteration leaves: the stack, the heap, and whether a napi call
\* failed (CheckNapi or NAPI_CALL threw and the function returned nullptr).
\* Every napi call can fail, so an iteration has a set of outcomes.
Outcome(stk, h, failed) == [stack |-> stk, heap |-> h, failed |-> failed]

\* bool next_is_array = next_info.found && next_info.starts_with_dash
NextIsArray(next_info) == next_info.found /\ next_info.starts_with_dash

\* a child context with the indentation of its own line
ChildIndentOfLine(next_info, indent) == indent

\* int child_indent = next_info.found ? next_info.indent : indent + 1
ChildIndent(next_info, indent) ==
    IF next_info.found THEN next_info.indent ELSE indent + 1

\* `-` alone: a new container appended to the current array, and its context
BareItem(stk, h, indent, next_info, child) ==
    { Outcome(stk, h, TRUE),
      Outcome(stk, Append(h, NewContainer(NextIsArray(next_info))), TRUE),
      Outcome(Append(stk, Context(ChildIndent(next_info, indent),
                                  NextIsArray(next_info), child)),
              AppendToArray(Append(h, NewContainer(NextIsArray(next_info))),
                            Back(stk).container, JsRef(child)),
              FALSE) }

\* `- key:` with item_obj and child created: the property, the element, and
\* the two contexts
KeyedContainerSet(stk, h, indent, next_info, key, item_obj, child) ==
    { Outcome(stk, h, TRUE),
      Outcome(stk, SetObjectProperty(h, item_obj, key, JsRef(child)), TRUE),
      Outcome(stk \o <<Context(indent, FALSE, item_obj),
                       Context(ChildIndent(next_info, indent),
                               NextIsArray(next_info), child)>>,
              AppendToArray(SetObjectProperty(h, item_obj, key, JsRef(child)),
                            Back(stk).container, JsRef(item_obj)),
              FALSE) }

\* `- key:`: item_obj is created, then the child container
KeyedContainer(stk, h, indent, next_info, key, item_obj) ==
    { Outcome(stk, h, TRUE), Outcome(stk, Append(h, NewContainer(FALSE)), TRUE) }
    \cup KeyedContainerSet(stk,
                           Append(Append(h, NewContainer(FALSE)),
                                  NewContainer(NextIsArray(next_info))),
                           indent, next_info, key, item_obj, item_obj + 1)

\* `- key: value` with item_obj created and the scalar val made (nullptr
\* when its napi call failed, which napi_set_property then rejects)
KeyedScalarSet(stk, h, indent, next_info, key, val, item_obj) ==
    IF val = NullPtr THEN {Outcome(stk, h, TRUE)}
    ELSE { Outcome(stk, h, TRUE),
           Outcome(stk, SetObjectProperty(h, item_obj, key, val), TRUE),
           Outcome(IF next_info.found /\ next_info.indent > indent
                   THEN Append(stk, Context(indent, FALSE, item_obj))
                   ELSE stk,
                   AppendToArray(SetObjectProperty(h, item_obj, key, val),
                                 Back(stk).container, JsRef(item_obj)),
                   FALSE) }

\* `- key: value`: item_obj is created, then the scalar
KeyedScalar(stk, h, indent, next_info, key, raw_value, item_obj) ==
    {Outcome(stk, h, TRUE)}
    \cup UNION { KeyedScalarSet(stk, Append(h, NewContainer(FALSE)), indent, next_info,
                                key, ParseScalarToJs(raw_value, sink_ok), item_obj)
                 : sink_ok \in BOOLEAN }

\* `- value`: the scalar val appended to the current array
ScalarItem(stk, h, val) ==
    IF val = NullPtr THEN {Outcome(stk, h, TRUE)}
    ELSE { Outcome(stk, h, TRUE),
           Outcome(stk, AppendToArray(h, Back(stk).container, val), FALSE) }

\* the item text has a colon at position colon
KeyedItem(stk, h, indent, next_info, key, raw_value) ==
    IF raw_value = <<>>
    THEN KeyedContainer(stk, h, indent, next_info, key, Len(h) + 1)
    ELSE KeyedScalar(stk, h, indent, next_info, key, raw_value, Len(h) + 1)

\* a sequence-item line whose current context is an array
Item(stk, h, indent, next_info, item_text, colon) ==
    IF item_text = <<>> THEN BareItem(stk, h, indent, next_info, Len(h) + 1)
    ELSE IF colon # 0
    THEN KeyedItem(stk, h, indent, next_info,
                   Trim(SubSeq(item_text, 1, colon - 1)), Trim(Tail1(item_text, colon + 1)))
    ELSE UNION { ScalarItem(stk, h, ParseScalarToJs(item_text, sink_ok))
                 : sink_ok \in BOOLEAN }

\* `key:`: a new container set under key in the current object, and its context
MappingContainer(stk, h, indent, next_info, key, child) ==
    { Outcome(stk, h, TRUE),
      Outcome(stk, Append(h, NewContainer(NextIsArray(next_info))), TRUE),
      Outcome(Append(stk, Context(ChildIndent(next_info, indent),
                                  NextIsArray(next_info), child)),
              SetObjectProperty(Append(h, NewContainer(NextIsArray(next_info))),
                                Back(stk).container, key, JsRef(child)),
              FALSE) }

\* `key: value`: the scalar val set under key in the current object
MappingScalar(stk, h, key, val) ==
    IF val = NullPtr THEN {Outcome(stk, h, TRUE)}
    ELSE { Outcome(stk, h, TRUE),
           Outcome(stk, SetObjectProperty(h, Back(stk).container, key, val), FALSE) }

\* a mapping line whose value text goes to the scalar inferencer also when
\* it is empty
MappingEmptyAsScalar(stk, h, indent, next_info, key, raw_value) ==
    UNION { MappingScalar(stk, h, key, val)
            : val \in {ParseScalarToJs(raw_value, sink_ok) : sink_ok \in BOOLEAN} }

\* a mapping line with a colon whose current context is an object
Mapping(stk, h, indent, next_info, key, raw_value) ==
    IF raw_value = <<>> THEN MappingContainer(stk, h, indent, next_info, key, Len(h) + 1)
    ELSE UNION { MappingScalar(stk, h, key, val)
                 : val \in {ParseScalarToJs(raw_value, sink_ok) : sink_ok \in BOOLEAN} }

\* Line without the tests of the kind of the current context: a dash line in
\* an object is read as a mapping line, a mapping line in an array as well
LineWithoutKindTest(stk, h, trimmed, indent, next_info, item_text, colon) ==
    IF trimmed[1] = "-" /\ Back(stk).is_array
    THEN Item(stk, h, indent, next_info, item_text, Find(item_text, ":"))
    ELSE IF colon = 0 THEN {Outcome(stk, h, FALSE)}
    ELSE Mapping(stk, h, indent, next_info,
                 Trim(SubSeq(trimmed, 1, colon - 1)), Trim(Tail1(trimmed, colon + 1)))

\* Line without the test for a missing colon: substr(0, npos) and
\* substr(npos + 1) both give the whole text, which becomes key and value
LineWithoutColonTest(stk, h, trimmed, indent, next_info, item_text, colon) ==
    IF trimmed[1] = "-"
    THEN IF ~Back(stk).is_array THEN {Outcome(stk, h, FALSE)}
         ELSE Item(stk, h, indent, next_info, item_text, Find(item_text, ":"))
    ELSE IF Back(stk).is_array THEN {Outcome(stk, h, FALSE)}
    ELSE IF colon = 0 THEN Mapping(stk, h, indent, next_info, trimmed, trimmed)
    ELSE Mapping(stk, h, indent, next_info,
                 Trim(SubSeq(trimmed, 1, colon - 1)), Trim(Tail1(trimmed, colon + 1)))

\* the loop body after the pop phase; stk is the stack the pops left; key
\* and raw_value are bound once, as the locals they are
Line(stk, h, trimmed, indent, next_info, item_text, colon) ==
    IF trimmed[1] = "-"
    THEN IF ~Back(stk).is_array THEN {Outcome(stk, h, FALSE)}
         ELSE Item(stk, h, indent, next_info, item_text, Find(item_text, ":"))
    ELSE IF Back(stk).is_array THEN {Outcome(stk, h, FALSE)}
    ELSE IF colon = 0 THEN {Outcome(stk, h, FALSE)}
    ELSE UNION { Mapping(stk, h, indent, next_info, key, raw_value) :
                    key \in {Trim(SubSeq(trimmed, 1, colon - 1))},
                    raw_value \in {Trim(Tail1(trimmed, colon + 1))} }

\* the loop body for a line that is not blank
NonBlank(ls, k, stk, h, trimmed, indent) ==
    UNION { Line(popped, h, trimmed, indent, next_info, item_text, colon) :
               popped \in {PopPhase(stk, indent)},
               next_info \in {PeekNextLine(ls, k + 1)},
               item_text \in {Trim(Tail1(trimmed, 2))},
               colon \in {Find(trimmed, ":")} }

\* the loop body running the pop phase on blank lines as well, with their
\* indentation
LoopBodyPoppingOnBlank(ls, k, stk, h) ==
    IF Trim(LineAt(ls, k)) = <<>>
    THEN {Outcome(PopPhase(stk, LeadingIndent(LineAt(ls, k))), h, FALSE)}
    ELSE NonBlank(ls, k, stk, h, Trim(LineAt(ls, k)), LeadingIndent(LineAt(ls, k)))

\* the outcomes of the loop body for line k (0-based) on stack stk and heap h
LoopBody(ls, k, stk, h) ==
    UNION { IF trimmed = <<>> THEN {Outcome(stk, h, FALSE)}
            ELSE NonBlank(ls, k, stk, h, trimmed, indent) :
               trimmed \in {Trim(LineAt(ls, k))},
               indent \in {LeadingIndent(LineAt(ls, k))} }

\* ------------------------------------------------------------------------
\* Calls of ParseSessionYamlToJs
\* ------------------------------------------------------------------------
\* the calls of ParseSessionYamlToJs the model follows; each has its own
\* lines, i, stack, root and return value (the function's locals)
Calls == {1, 2}

\* std::vector<Context> stack; stack.push_back(Context{-1, false, root})
RootStack(container) == <<Context(0 - 1, FALSE, container)>>

\* Call with the context stack a static of the function: every call in
\* progress finds the stack the latest call initialised
CallStaticStack(p) ==
    /\ pc[p] = "idle"
    /\ lines' = [lines EXCEPT ![p] = SplitLines(session)]
    /\ \E sink_ok \in BOOLEAN :
          IF sink_ok
          THEN /\ heap' = Append(heap, NewContainer(FALSE))
               /\ root' = [root EXCEPT ![p] = Len(heap) + 1]
               /\ stack' = [q \in Calls |-> RootStack(Len(heap) + 1)]
               /\ pc' = [pc EXCEPT ![p] = "loop"]
               /\ UNCHANGED <<ret, exception>>
          ELSE /\ pc' = [pc EXCEPT ![p] = "error"]
               /\ ret' = [ret EXCEPT ![p] = NullPtr]
               /\ exception' = [exception EXCEPT ![p] = TRUE]
               /\ UNCHANGED <<heap, root, stack>>
    /\ i' = [i EXCEPT ![p] = 0]
    /\ UNCHANGED <<session, value, scalar>>

\* Call with the empty session text taken for an absent one: null is returned
CallEmptyIsNull(p) ==
    /\ pc[p] = "idle"
    /\ lines' = [lines EXCEPT ![p] = SplitLines(session)]
    /\ \E sink_ok \in BOOLEAN :
          IF ~sink_ok
          THEN /\ pc' = [pc EXCEPT ![p] = "error"]
               /\ ret' = [ret EXCEPT ![p] = NullPtr]
               /\ exception' = [exception EXCEPT ![p] = TRUE]
               /\ UNCHANGED <<heap, root, stack>>
          ELSE IF session = <<>>
          THEN /\ pc' = [pc EXCEPT ![p] = "done"]
               /\ ret' = [ret EXCEPT ![p] = JsNull]
               /\ UNCHANGED <<heap, root, stack, exception>>
          ELSE /\ heap' = Append(heap, NewContainer(FALSE))
               /\ root' = [root EXCEPT ![p] = Len(heap) + 1]
               /\ stack' = [stack EXCEPT ![p] = RootStack(Len(heap) + 1)]
               /\ pc' = [pc EXCEPT ![p] = "loop"]
               /\ UNCHANGED <<ret, exception>>
    /\ i' = [i EXCEPT ![p] = 0]
    /\ UNCHANGED <<session, value, scalar>>

\* SplitLines, napi_create_object(&root) and the push of the root context
Call(p) ==
    /\ pc[p] = "idle"
    /\ lines' = [lines EXCEPT ![p] = SplitLines(session)]
    /\ \E sink_ok \in BOOLEAN :
          IF sink_ok
          THEN /\ heap' = Append(heap, NewContainer(FALSE))
               /\ root' = [root EXCEPT ![p] = Len(heap) + 1]
               /\ stack' = [stack EXCEPT ![p] = RootStack(Len(heap) + 1)]
               /\ pc' = [pc EXCEPT ![p] = "loop"]
               /\ UNCHANGED <<ret, exception>>
          ELSE /\ pc' = [pc EXCEPT ![p] = "error"]
               /\ ret' = [ret EXCEPT ![p] = NullPtr]
               /\ exception' = [exception EXCEPT ![p] = TRUE]
               /\ UNCHANGED <<heap, root, stack>>
    /\ i' = [i EXCEPT ![p] = 0]
    /\ UNCHANGED <<session, value, scalar>>

\* Iterate going on to the next line after a failed napi call
IterateIgnoringFailure(p) ==
    /\ pc[p] = "loop"
    /\ i[p] < Len(lines[p])
    /\ \E out \in LoopBody(lines[p], i[p], stack[p], heap) :
          /\ heap' = out.heap
          /\ stack' = [stack EXCEPT ![p] = out.stack]
          /\ exception' = [exception EXCEPT ![p] = @ \/ out.failed]
          /\ i' = [i EXCEPT ![p] = @ + 1]
          /\ UNCHANGED <<pc, ret>>
    /\ UNCHANGED <<session, lines, root, value, scalar>>

\* one iteration of for (size_t i = 0; i < lines.size(); ++i); a failed
\* napi call throws (CheckNapi, NAPI_CALL) and returns nullptr from inside
\* the loop
Iterate(p) ==
    /\ pc[p] = "loop"
    /\ i[p] < Len(lines[p])
    /\ \E out \in LoopBody(lines[p], i[p], stack[p], heap) :
          /\ heap' = out.heap
          /\ stack' = [stack EXCEPT ![p] = out.stack]
          /\ IF out.failed
             THEN /\ pc' = [pc EXCEPT ![p] = "error"]
                  /\ ret' = [ret EXCEPT ![p] = NullPtr]
                  /\ exception' = [exception EXCEPT ![p] = TRUE]
                  /\ i' = i
             ELSE /\ i' = [i EXCEPT ![p] = @ + 1]
                  /\ UNCHANGED <<pc, ret, exception>>
    /\ UNCHANGED <<session, lines, root, value, scalar>>

\* Return leaving the loop at any line index
ReturnBeforeEnd(p) ==
    /\ pc[p] = "loop"
    /\ i[p] <= Len(lines[p])
    /\ pc' = [pc EXCEPT ![p] = "done"]
    /\ ret' = [ret EXCEPT ![p] = JsRef(root[p])]
    /\ UNCHANGED <<session, heap, exception, lines, i, stack, root, value, scalar>>

\* Return with the container of the top context in place of root
ReturnBack(p) ==
    /\ pc[p] = "loop"
    /\ i[p] = Len(lines[p])
    /\ pc' = [pc EXCEPT ![p] = "done"]
    /\ ret' = [ret EXCEPT ![p] = JsRef(Back(stack[p]).container)]
    /\ UNCHANGED <<session, heap, exception, lines, i, stack, root, value, scalar>>

\* return root
Return(p) ==
    /\ pc[p] = "loop"
    /\ i[p] = Len(lines[p])
    /\ pc' = [pc EXCEPT ![p] = "done"]
    /\ ret' = [ret EXCEPT ![p] = JsRef(root[p])]
    /\ UNCHANGED <<session, heap, exception, lines, i, stack, root, value, scalar>>

\* ------------------------------------------------------------------------
\* Session texts
\* ------------------------------------------------------------------------
\* what follows the indentation of a generated line: nothing, a key with an
\* empty value, a key: value entry, a scalar sequence item, a sequence item
\* with an inline key, a stray word
Bodies ==
    { <<>>,
      <<"K", ":">>,
      <<"a", ":", " ", "1">>,
      <<"-", " ", "1">>,
      <<"-", " ", "a", ":", " ", "1">>,
      <<"x">> }

Indented(n, body) == [d \in 1..n |-> " "] \o body

GenLines == {Indented(n, body) : n \in 0..MaxIndent, body \in Bodies}

RECURSIVE Join(_)
Join(ls) ==
    IF Len(ls) = 1 THEN ls[1]
    ELSE ls[1] \o <<"\n">> \o Join(Tail(ls))

SessionTexts(max) ==
    {Join(ls) : ls \in UNION {[1..n -> GenLines] : n \in 1..max}}

Pending == JsValue("pending", FALSE, 0, 0, <<>>)

InitLocals ==
    /\ heap = <<>>
    /\ exception = [p \in Calls |-> FALSE]
    /\ pc = [p \in Calls |-> "idle"]
    /\ lines = [p \in Calls |-> <<>>]
    /\ i = [p \in Calls |-> 0]
    /\ stack = [p \in Calls |-> <<>>]
    /\ root = [p \in Calls |-> 0]
    /\ ret = [p \in Calls |-> NullPtr]

\* one call of ParseSessionYamlToJs on a session text
Init ==
    /\ session \in SessionTexts(MaxLines)
    /\ InitLocals
    /\ value = <<>>
    /\ scalar = Pending

Next == Call(1) \/ Iterate(1) \/ Return(1)

Spec == Init /\ [][Next]_vars

\* session texts of the run that is followed to its end: every body, flush
\* or indented
FairLines == {Indented(n, body) : n \in {0, MaxIndent}, body \in Bodies}

FairTexts ==
    {Join(ls) : ls \in UNION {[1..n -> FairLines] : n \in 1..MaxLinesFair}}

InitFair ==
    /\ session \in FairTexts
    /\ InitLocals
    /\ value = <<>>
    /\ scalar = Pending

\* the call runs on: ParseSessionYamlToJs is synchronous code without waits,
\* so whenever the call has a next step it takes one
SpecFair == InitFair /\ [][Next]_vars /\ WF_vars(Next)

\* session texts of sequence items: `-`, the document marker `---`, the
\* three forms of an item, and the `K:` that opens a sequence, flush or
\* indented
DashBodies ==
    { <<"-">>,
      <<"-", "-", "-">>,
      <<"-", " ", "1">>,
      <<"-", " ", "a", ":">>,
      <<"-", " ", "a", ":", " ", "1">>,
      <<"K", ":">> }

DashGenLines == {Indented(n, body) : n \in {0, MaxIndent}, body \in DashBodies}

DashTexts ==
    {Join(ls) : ls \in UNION {[1..n -> DashGenLines] : n \in 1..MaxLinesDash}}

InitDash ==
    /\ session \in DashTexts
    /\ InitLocals
    /\ value = <<>>
    /\ scalar = Pending

SpecDash == InitDash /\ [][Next]_vars

\* session texts with blank lines: the empty line and the line of white
\* space among a `key:`, a `key: value` and a sequence item, flush or
\* indented
BlankBodies ==
    { <<>>,
      <<"K", ":">>,
      <<"a", ":", " ", "1">>,
      <<"-", " ", "1">> }

BlankGenLines == {Indented(n, body) : n \in {0, MaxIndent}, body \in BlankBodies}

BlankTexts ==
    {Join(ls) : ls \in UNION {[1..n -> BlankGenLines] : n \in 1..MaxLinesBlank}}

InitBlank ==
    /\ session \in BlankTexts
    /\ InitLocals
    /\ value = <<>>
    /\ scalar = Pending

SpecBlank == InitBlank /\ [][Next]_vars

\* two calls on the same session text, their steps interleaved in any order
InitTwo ==
    /\ session \in SessionTexts(MaxLinesTwo)
    /\ InitLocals
    /\ value = <<>>
    /\ scalar = Pending

NextTwo == \E p \in Calls : Call(p) \/ Iterate(p) \/ Return(p)

SpecTwo == InitTwo /\ [][NextTwo]_vars

\* ------------------------------------------------------------------------
\* ParseScalarToJs on its own
\* ------------------------------------------------------------------------
\* the characters of a scalar text drawn letter by letter
ScalarChars == {"0", "1", "x", "X", "-", ".", "e", "\"", "A"}

\* texts longer than the letter-by-letter bound: the boolean words, quoted
\* and not, and the words strtod reads as numbers, in and out of the range
\* of a double
ScalarWords ==
    { <<"t", "r", "u", "e">>, <<"f", "a", "l", "s", "e">>,
      <<"T", "r", "u", "e">>, <<"t", "r", "u", "e", "1">>,
      <<"\"", "t", "r", "u", "e", "\"">>, <<"\"", "f", "a", "l", "s", "e", "\"">>,
      <<"i", "n", "f">>, <<"-", "I", "N", "F">>, <<"n", "a", "n">>,
      <<"i", "n", "f", "i", "n", "i", "t", "y">>, <<"i", "n", "f", "i">>,
      <<"0", "x", "1", "p", "-", "1">>, <<"-", "0", "x", "1", "p", "1">>,
      <<"1", "e", "+", "1">>, <<"+", "1">>, <<"+", "0", "x", "A">>,
      <<"1", "e", "9", "9", "9">>, <<"-", "1", "e", "-", "9", "9", "9">> }

\* the texts ParseScalarToJs is called with: its callers take the empty text
\* to the container branch and never pass it on
ScalarTexts ==
    ScalarWords \cup UNION {[1..n -> ScalarChars] : n \in 1..MaxValueLen}

ScalarCall ==
    /\ scalar = Pending
    /\ \E sink_ok \in BOOLEAN : scalar' = ParseScalarToJs(value, sink_ok)
    /\ UNCHANGED <<session, heap, exception, pc, lines, i, stack, root, ret, value>>

InitScalar ==
    /\ value \in ScalarTexts
    /\ scalar = Pending
    /\ session = <<>>
    /\ InitLocals

NextScalar == ScalarCall

SpecScalar == InitScalar /\ [][NextScalar]_vars

\* ------------------------------------------------------------------------
\* Session texts that set a key more than once
\* ------------------------------------------------------------------------
\* the key a with two scalar values and with an empty value, and another key
KeyBodies ==
    { <<"a", ":", " ", "1">>,
      <<"a", ":", " ", "0">>,
      <<"a", ":">>,
      <<"b", ":", " ", "1">> }

KeyLines == {Indented(n, body) : n \in 0..MaxIndent, body \in KeyBodies}

KeyTexts == {Join(ls) : ls \in UNION {[1..n -> KeyLines] : n \in 1..MaxLines}}

InitKeys ==
    /\ session \in KeyTexts
    /\ InitLocals
    /\ value = <<>>
    /\ scalar = Pending

SpecKeys == InitKeys /\ [][Next]_vars

\* ------------------------------------------------------------------------
\* SplitLines on its own
\* ------------------------------------------------------------------------
\* the characters of a text given to SplitLines: a letter, a space, the line
\* feed and the carriage return
SplitChars == {"a", " ", "\n", "\r"}

SplitTexts == UNION {[1..n -> SplitChars] : n \in 0..MaxTextLen}

\* std::vector<std::string> lines; SplitLines(session, &lines);
SplitCall ==
    /\ pc[1] = "idle"
    /\ lines' = [lines EXCEPT ![1] = SplitLines(session)]
    /\ pc' = [pc EXCEPT ![1] = "split"]
    /\ UNCHANGED <<session, heap, exception, i, stack, root, ret, value, scalar>>

InitSplit ==
    /\ session \in SplitTexts
    /\ InitLocals
    /\ value = <<>>
    /\ scalar = Pending

NextSplit == SplitCall

SpecSplit == InitSplit /\ [][NextSplit]_vars

\* ------------------------------------------------------------------------
\* Vocabulary of the properties
\* ------------------------------------------------------------------------
\* the value tree under a napi value: a container as its kind, its keys and
\* the trees of its values; a scalar as itself
RECURSIVE Tree(_, _)
Tree(h, val) ==
    IF val.t = "Ref"
    THEN [is_array |-> h[val.n].is_array,
          keys     |-> h[val.n].keys,
          vals     |-> [d \in 1..Len(h[val.n].vals) |-> Tree(h, h[val.n].vals[d])]]
    ELSE val

IsContainer(tree) == "is_array" \in DOMAIN tree

IsObject(tree) == IsContainer(tree) /\ ~tree.is_array

IsArray(tree) == IsContainer(tree) /\ tree.is_array

\* the tree under key of an object tree that has the key
Under(tree, key) == tree.vals[CHOOSE d \in 1..Len(tree.keys) : tree.keys[d] = key]

HasKey(tree, key) == \E d \in 1..Len(tree.keys) : tree.keys[d] = key

\* the shapes of a line, as section 4.2 and 4.4 of the specification name them
IsBlank(l) == \A d \in 1..Len(l) : IsSpace(l[d])

IsSeqItem(l) == ~IsBlank(l) /\ Trim(l)[1] = "-"

IsMappingLine(l) == ~IsBlank(l) /\ Trim(l)[1] # "-"

\* the text before and after the first colon of a text that has one
BeforeColon(t) == Trim(SubSeq(t, 1, Find(t, ":") - 1))

AfterColon(t) == Trim(Tail1(t, Find(t, ":") + 1))

\* `key: value`
IsKeyValue(l) ==
    IsMappingLine(l) /\ Find(Trim(l), ":") # 0 /\ AfterColon(Trim(l)) # <<>>

\* `key:`
IsEmptyKey(l) ==
    IsMappingLine(l) /\ Find(Trim(l), ":") # 0 /\ AfterColon(Trim(l)) = <<>>

\* a word without `:` and without a leading `-`
IsStray(l) == IsMappingLine(l) /\ Find(Trim(l), ":") = 0

\* the text of a sequence item after its dash
ItemText(l) == Trim(Tail1(Trim(l), 2))

\* `- value`
IsScalarItem(l) ==
    IsSeqItem(l) /\ ItemText(l) # <<>> /\ Find(ItemText(l), ":") = 0

\* `- key: value`
IsKeyedItem(l) ==
    IsSeqItem(l) /\ Find(ItemText(l), ":") # 0 /\ AfterColon(ItemText(l)) # <<>>

\* the lines of the first call, and what it returned
Lines1 == lines[1]

Returned1 == Tree(heap, ret[1])

\* ------------------------------------------------------------------------
\* C1
\* ------------------------------------------------------------------------
\* the text is `K:` followed by deeper `key: value` lines (and blank lines)
NestedMappingText(ls) ==
    /\ Len(ls) >= 2
    /\ IsEmptyKey(ls[1])
    /\ \E j \in 2..Len(ls) : ~IsBlank(ls[j])
    /\ \A j \in 2..Len(ls) :
          \/ IsBlank(ls[j])
          \/ IsKeyValue(ls[j]) /\ LeadingIndent(ls[j]) > LeadingIndent(ls[1])

\* C1: when a mapping line `K:` has an empty value and the non-blank lines
\* after it are `key: value` lines indented deeper than K, the finished parse
\* holds each of those entries inside the Object under K and not in the
\* enclosing object, whose only key is K.
C1_NestedMapping ==
    (pc[1] = "done" /\ NestedMappingText(Lines1)) =>
        /\ Returned1.keys = <<BeforeColon(Trim(Lines1[1]))>>
        /\ IsObject(Returned1.vals[1])
        /\ \A j \in 2..Len(Lines1) :
              IsKeyValue(Lines1[j]) =>
                  HasKey(Returned1.vals[1], BeforeColon(Trim(Lines1[j])))

\* ------------------------------------------------------------------------
\* C2
\* ------------------------------------------------------------------------
\* the text is `K:`, a `- key: value` line, and then only such lines at the
\* same indentation and `key: value` lines indented deeper than the dashes
KeyedItemsText(ls) ==
    /\ Len(ls) >= 2
    /\ IsEmptyKey(ls[1])
    /\ IsKeyedItem(ls[2])
    /\ \A j \in 3..Len(ls) :
          \/ IsKeyedItem(ls[j]) /\ LeadingIndent(ls[j]) = LeadingIndent(ls[2])
          \/ IsKeyValue(ls[j]) /\ LeadingIndent(ls[j]) > LeadingIndent(ls[2])

\* the dash lines of such a text, in line order
DashLines(ls) == {j \in 2..Len(ls) : IsKeyedItem(ls[j])}

\* the dash line that opens the object line j belongs to
OpenedBy(ls, j) == SetMax({d \in DashLines(ls) : d <= j})

\* the place of dash line d among the dash lines
DashRank(ls, d) == Cardinality({c \in DashLines(ls) : c <= d})

\* the key a line of such a text sets
EntryKey(l) ==
    IF IsSeqItem(l) THEN BeforeColon(ItemText(l)) ELSE BeforeColon(Trim(l))

\* C2: when `K:` is followed by `- key: value` lines, each followed by
\* deeper `key: value` lines, K maps to an Array with one Object per dash
\* line, in line order, and each Object holds the inline key of its dash line
\* and the keys of the deeper lines that follow it up to the next dash line.
C2_KeyedItems ==
    (pc[1] = "done" /\ KeyedItemsText(Lines1)) =>
        /\ Returned1.keys = <<BeforeColon(Trim(Lines1[1]))>>
        /\ IsArray(Returned1.vals[1])
        /\ Len(Returned1.vals[1].vals) = Cardinality(DashLines(Lines1))
        /\ \A j \in 2..Len(Lines1) :
              LET item == Returned1.vals[1].vals[DashRank(Lines1, OpenedBy(Lines1, j))]
              IN  IsObject(item) /\ HasKey(item, EntryKey(Lines1[j]))

\* ------------------------------------------------------------------------
\* C3
\* ------------------------------------------------------------------------
\* the text is `K:` followed by `- value` lines only
ScalarItemsText(ls) ==
    /\ Len(ls) >= 2
    /\ IsEmptyKey(ls[1])
    /\ \A j \in 2..Len(ls) : IsScalarItem(ls[j])

\* C3: when `K:` is followed by sequence-item lines `- v` without a colon, K
\* maps to an Array whose elements are the scalars inferred from those
\* lines, one per line and in line order.
C3_ScalarItems ==
    (pc[1] = "done" /\ ScalarItemsText(Lines1)) =>
        /\ Returned1.keys = <<BeforeColon(Trim(Lines1[1]))>>
        /\ IsArray(Returned1.vals[1])
        /\ Returned1.vals[1].vals =
              [j \in 1..(Len(Lines1) - 1) |->
                  ParseScalarToJs(ItemText(Lines1[j + 1]), TRUE)]

\* ------------------------------------------------------------------------
\* C4
\* ------------------------------------------------------------------------
\* C4: for every text, a call that runs to its return without a failed napi
\* call returns the root container: the first container the call created,
\* which is on the heap as an Object from its creation on.
C4_RootIsObject ==
    /\ pc[1] \in {"loop", "done"} =>
          /\ root[1] = 1
          /\ ~heap[root[1]].is_array
          /\ stack[1][1] = Context(0 - 1, FALSE, root[1])
    /\ pc[1] = "done" => ret[1] = JsRef(root[1]) /\ IsObject(Returned1)

\* a finished parse of a text with a line the parser skips and, as its last
\* line, a key whose context is still on the stack at the return
C4_Witness ==
    /\ pc[1] = "done"
    /\ \E j \in 1..Len(Lines1) : IsSeqItem(Lines1[j]) \/ IsStray(Lines1[j])
    /\ Len(stack[1]) > 1
    /\ Returned1.keys # <<>>

\* ------------------------------------------------------------------------
\* C5
\* ------------------------------------------------------------------------
\* the text has no character but spaces, tabs, carriage returns, line feeds
OnlyBlankLines(text) == \A d \in 1..Len(text) : text[d] \in {" ", "\t", "\r", "\n"}

\* C5: a finished parse of the empty text, or of a text of blank lines only,
\* returns an Object with no entries.
C5_BlankGivesEmptyObject ==
    (pc[1] = "done" /\ OnlyBlankLines(session)) =>
        /\ ret[1].t = "Ref"
        /\ Returned1 = [is_array |-> FALSE, keys |-> <<>>, vals |-> <<>>]

\* a finished parse of several blank lines, one of them of spaces
C5_Witness ==
    /\ pc[1] = "done"
    /\ OnlyBlankLines(session)
    /\ Len(Lines1) > 1
    /\ \E j \in 1..Len(Lines1) : Lines1[j] # <<>>
    /\ Returned1.keys = <<>>

\* ------------------------------------------------------------------------
\* C6
\* ------------------------------------------------------------------------
\* the call is about to handle line i, a stray word
AtStrayLine ==
    /\ pc[1] = "loop"
    /\ i[1] < Len(Lines1)
    /\ IsStray(LineAt(Lines1, i[1]))

\* C6: the iteration for a non-blank line without `:` and without a leading
\* `-` does not end the call in an error, leaves the heap (every object and
\* array) as it was, pushes no context (the stack it leaves is an initial
\* part of the stack it found) and goes on to the next line.
C6_StrayLineSkipped ==
    [][AtStrayLine =>
          /\ heap' = heap
          /\ pc'[1] = "loop"
          /\ i'[1] = i[1] + 1
          /\ Len(stack'[1]) <= Len(stack[1])
          /\ stack'[1] = SubSeq(stack[1], 1, Len(stack'[1]))]_vars

\* a stray word, indented, was handled after a key had been set, and its
\* pop phase popped a context
C6_Witness ==
    /\ pc[1] = "loop"
    /\ i[1] > 1
    /\ IsStray(LineAt(Lines1, i[1] - 1))
    /\ LeadingIndent(LineAt(Lines1, i[1] - 1)) > 0
    /\ IsEmptyKey(LineAt(Lines1, i[1] - 2))
    /\ heap[root[1]].keys # <<>>
    /\ Len(stack[1]) = 1

\* ------------------------------------------------------------------------
\* C7
\* ------------------------------------------------------------------------
\* the text without its sign
Unsigned(v) == IF v # <<>> /\ v[1] \in {"+", "-"} THEN Tail(v) ELSE v

\* digits of the class with at most one point among them
IsMantissa(t, class) ==
    /\ \E d \in 1..Len(t) : t[d] \in class
    /\ \A d \in 1..Len(t) : t[d] \in class \/ t[d] = "."
    /\ Cardinality({d \in 1..Len(t) : t[d] = "."}) <= 1

\* the letter mark, an optional sign, digits
IsExponent(t, mark) ==
    /\ t # <<>>
    /\ ToLower(t[1]) = mark
    /\ Unsigned(Tail(t)) # <<>>
    /\ \A d \in 1..Len(Unsigned(Tail(t))) : IsDigit(Unsigned(Tail(t))[d])

\* a mantissa from position from on, then nothing or an exponent
IsConstant(u, from, class, mark) ==
    \E m \in from..Len(u) :
        /\ IsMantissa(SubSeq(u, from, m), class)
        /\ m = Len(u) \/ IsExponent(Tail1(u, m + 1), mark)

\* [+-]digits, of at most 18 digits (every such number is an int64; no
\* text of the model is longer)
ReadsAsInt64(v) ==
    /\ Unsigned(v) # <<>>
    /\ Len(Unsigned(v)) <= 18
    /\ \A d \in 1..Len(Unsigned(v)) : IsDigit(Unsigned(v)[d])

\* the number a digit string writes, by the place of each digit
PlaceValue(ds) ==
    LET weigh[d \in 0..Len(ds)] ==
            IF d = 0 THEN 0 ELSE weigh[d - 1] + DigitVal(ds[d]) * Pow(10, Len(ds) - d)
    IN  weigh[Len(ds)]

\* the whole text is a floating-point number as the double parse of section
\* 4.3 rule 4 reads it: not 0x-prefixed, and after an optional sign a
\* decimal constant, a hexadecimal constant, inf, infinity or nan
ReadsAsDouble(v) ==
    /\ ~(Len(v) > 2 /\ v[1] = "0" /\ v[2] \in {"x", "X"})
    /\ \/ IsConstant(Unsigned(v), 1, DigitSet, "e")
       \/ /\ Len(Unsigned(v)) >= 3
          /\ Unsigned(v)[1] = "0"
          /\ Unsigned(v)[2] \in {"x", "X"}
          /\ IsConstant(Unsigned(v), 3, HexDigitSet, "p")
       \/ [d \in 1..Len(Unsigned(v)) |-> ToLower(Unsigned(v)[d])]
             \in { <<"i", "n", "f">>, <<"n", "a", "n">>,
                   <<"i", "n", "f", "i", "n", "i", "t", "y">> }

IsQuoted(v) == Len(v) >= 2 /\ v[1] = "\"" /\ v[Len(v)] = "\""

\* ParseScalarToJs returned a value (its napi call did not fail)
ScalarMade == scalar.t \notin {"pending", "nullptr"}

\* std::strtod read the text and reported a result out of range (ERANGE)
RangeError(v) == Strtod(v).erange

\* C7 as stated: ParseScalarToJs returns the result of the first rule that
\* matches, in this order: wrapped in double quotes and of length >= 2, a
\* String equal to the inner text, whatever the inner text reads as; exactly
\* true or false, a Bool; fully read as a base-10 signed 64-bit integer, the
\* Int64 of that number; fully read as a floating-point number, a Double;
\* else a String equal to the text.
C7_AsStated ==
    ScalarMade =>
        IF IsQuoted(value) THEN scalar = JsString(SubSeq(value, 2, Len(value) - 1))
        ELSE IF value = <<"t", "r", "u", "e">> THEN scalar = JsBool(TRUE)
        ELSE IF value = <<"f", "a", "l", "s", "e">> THEN scalar = JsBool(FALSE)
        ELSE IF ReadsAsInt64(value)
        THEN scalar = JsInt64(Negated(value[1] = "-", PlaceValue(Unsigned(value))))
        ELSE IF ReadsAsDouble(value) THEN scalar.t = "Double"
        ELSE scalar = JsString(value)

\* C7, amended: on a non-empty text (the callers never pass the empty one)
\* ParseScalarToJs returns the result of the first rule that matches, in the
\* order of C7 as stated, except that a text fully read as a floating-point
\* number gives a Double only when the number is in the range of a double;
\* one out of range (1e999) falls through to the last rule and gives a String
\* equal to the text.
C7_ScalarRuleOrder ==
    ScalarMade =>
        IF IsQuoted(value) THEN scalar = JsString(SubSeq(value, 2, Len(value) - 1))
        ELSE IF value = <<"t", "r", "u", "e">> THEN scalar = JsBool(TRUE)
        ELSE IF value = <<"f", "a", "l", "s", "e">> THEN scalar = JsBool(FALSE)
        ELSE IF ReadsAsInt64(value)
        THEN scalar = JsInt64(Negated(value[1] = "-", PlaceValue(Unsigned(value))))
        ELSE IF ReadsAsDouble(value) /\ ~RangeError(value) THEN scalar.t = "Double"
        ELSE scalar = JsString(value)

\* a text that reads as a floating-point number out of range came back as a
\* String
C7_Witness ==
    /\ ScalarMade
    /\ ReadsAsDouble(value)
    /\ RangeError(value)
    /\ scalar = JsString(value)

\* ------------------------------------------------------------------------
\* C8
\* ------------------------------------------------------------------------
\* C8: every text longer than 2 characters whose first two characters are 0x
\* or 0X comes back from ParseScalarToJs as a String equal to the text, not
\* as an Int64 or a Double.
C8_HexPrefixIsString ==
    (ScalarMade /\ Len(value) > 2 /\ value[1] = "0" /\ value[2] \in {"x", "X"}) =>
        scalar = JsString(value)

\* 0x1A, which strtod reads as 26, came back as the String 0x1A
C8_Witness ==
    /\ value = <<"0", "x", "1", "A">>
    /\ scalar = JsString(value)

\* ------------------------------------------------------------------------
\* C9
\* ------------------------------------------------------------------------
\* the context line l meets after its pop phase
ContextOf(stk, l) == Back(PopPhase(stk, LeadingIndent(l)))

\* line l makes napi calls on stack stk: it is a mapping line with a colon
\* in an Object context or a sequence item in an Array context
UsesSink(stk, l) ==
    \/ IsSeqItem(l) /\ ContextOf(stk, l).is_array
    \/ IsMappingLine(l) /\ ~IsStray(l) /\ ~ContextOf(stk, l).is_array

\* the call ended in an error exactly when one of its napi calls failed and
\* threw, it then returned nullptr, and no line forces a failure
ErrorIffSinkFailed ==
    /\ pc[1] = "error" <=> exception[1]
    /\ pc[1] = "error" => ret[1] = NullPtr
    /\ pc[1] = "done" => ret[1] = JsRef(root[1])
    /\ (pc[1] = "loop" /\ i[1] < Len(Lines1)) =>
          \E out \in LoopBody(Lines1, i[1], stack[1], heap) : ~out.failed

\* the step that ends in an error is the creation of the root or a line that
\* makes napi calls, and the line index stays at that line
ErrorAtSinkLine ==
    (pc[1] # "error" /\ pc'[1] = "error") =>
        /\ ret'[1] = NullPtr
        /\ i'[1] = i[1]
        /\ pc[1] = "idle" \/ UsesSink(stack[1], LineAt(Lines1, i[1]))

\* C9: for every text, the call returns an error outcome (nullptr, an
\* exception pending) if and only if a napi call of the value sink failed;
\* malformed lines never cause one; the call stops at the failing line and
\* returns nullptr, not the partly built root.
C9_ErrorOnlyFromSink == []ErrorIffSinkFailed /\ [][ErrorAtSinkLine]_vars

\* a call that set a key, passed a malformed line (a stray word or a
\* sequence item outside an array) and then failed at a later line
C9_Witness ==
    /\ pc[1] = "error"
    /\ exception[1]
    /\ ret[1] = NullPtr
    /\ root[1] > 0
    /\ heap[root[1]].keys # <<>>
    /\ \E j \in 1..i[1] : IsStray(Lines1[j]) \/ IsSeqItem(Lines1[j])

\* ------------------------------------------------------------------------
\* C10
\* ------------------------------------------------------------------------
\* the heap indices of the containers under a napi value
RECURSIVE Reach(_, _)
Reach(h, val) ==
    IF val.t = "Ref"
    THEN {val.n} \cup UNION {Reach(h, h[val.n].vals[d]) : d \in 1..Len(h[val.n].vals)}
    ELSE {}

\* two finished calls on the same text returned equal trees that share no
\* container
EqualTrees ==
    (pc[1] = "done" /\ pc[2] = "done") =>
        /\ Tree(heap, ret[1]) = Tree(heap, ret[2])
        /\ Reach(heap, ret[1]) \cap Reach(heap, ret[2]) = {}

\* a step leaves alone every call that did not take it: its lines, line
\* index, stack, root and return value, and the tree under its root
OthersUntouched ==
    \A p \in Calls :
        (pc'[p] = pc[p] /\ i'[p] = i[p]) =>
            /\ lines'[p] = lines[p]
            /\ stack'[p] = stack[p]
            /\ root'[p] = root[p]
            /\ ret'[p] = ret[p]
            /\ pc[p] \in {"loop", "done"} =>
                  Tree(heap', JsRef(root[p])) = Tree(heap, JsRef(root[p]))

\* C10: two parses of the same text, one after the other or interleaved step
\* by step, return structurally equal trees, and no step of one parse
\* changes the lines, the line index, the context stack or the containers of
\* the other.
C10_IndependentParses == []EqualTrees /\ [][OthersUntouched]_vars

\* two finished parses whose steps were interleaved: the first made a
\* container after the second had made its root
C10_Witness ==
    /\ pc[1] = "done"
    /\ pc[2] = "done"
    /\ root[1] < root[2]
    /\ \E n \in Reach(heap, ret[1]) : n > root[2]
    /\ Len(heap[root[2]].keys) > 1

\* ------------------------------------------------------------------------
\* C11
\* ------------------------------------------------------------------------
IsLineFeed(ch) == ch = "\n"

NotCarriageReturn(ch) == ch # "\r"

\* the text after its last line feed (the whole text when it has none)
LastFragment(text) ==
    IF \E d \in 1..Len(text) : text[d] = "\n"
    THEN Tail1(text, SetMax({d \in 1..Len(text) : text[d] = "\n"}) + 1)
    ELSE text

\* C11: SplitLines turns a text with n line feeds into exactly n + 1 lines;
\* no line holds a carriage return or a line feed; the lines joined by line
\* feeds are the text without its carriage returns (so the lines are in
\* order and every line feed ends one); and the last line is the fragment
\* after the last line feed, carriage returns dropped, also when it is empty.
C11_SplitLines ==
    pc[1] = "split" =>
        /\ Len(Lines1) = Len(SelectSeq(session, IsLineFeed)) + 1
        /\ \A k \in 1..Len(Lines1) : \A d \in 1..Len(Lines1[k]) :
              Lines1[k][d] \notin {"\n", "\r"}
        /\ Join(Lines1) = SelectSeq(session, NotCarriageReturn)
        /\ Lines1[Len(Lines1)] = SelectSeq(LastFragment(session), NotCarriageReturn)

\* a text with a carriage return before its line feed and nothing after it
\* was split into the line before and an empty last line
C11_Witness ==
    /\ pc[1] = "split"
    /\ session = <<"a", "\r", "\n">>
    /\ Lines1 = <<<<"a">>, <<>>>>

\* ------------------------------------------------------------------------
\* C12
\* ------------------------------------------------------------------------
\* no Object of the heap has two entries with the same key
KeysUnique ==
    \A id \in 1..Len(heap) :
        ~heap[id].is_array =>
            \A a, b \in 1..Len(heap[id].keys) :
                a # b => heap[id].keys[a] # heap[id].keys[b]

\* the value an accepted mapping line l sets: a new container for an empty
\* value (the next index of heap h), else the scalar its value text reads as
ValueSet(h, l) ==
    IF IsEmptyKey(l) THEN JsRef(Len(h) + 1)
    ELSE ParseScalarToJs(AfterColon(Trim(l)), TRUE)

\* after line l was accepted on Object obj, obj has one entry for the key of
\* l, holding the value l set; an entry obj had for the key keeps its place,
\* a new one goes last, and the other entries are as before
SetByLine(h, hn, obj, l) ==
    /\ hn[obj].keys = IF HasKey(h[obj], BeforeColon(Trim(l))) THEN h[obj].keys
                      ELSE Append(h[obj].keys, BeforeColon(Trim(l)))
    /\ \A d \in 1..Len(hn[obj].keys) :
          hn[obj].vals[d] = IF hn[obj].keys[d] = BeforeColon(Trim(l))
                            THEN ValueSet(h, l)
                            ELSE h[obj].vals[d]

\* the step over a mapping line with a colon, accepted in an Object context
\* without a failed napi call, sets its key on that Object as SetByLine says
LaterLineWins ==
    (/\ pc[1] = "loop"
     /\ pc'[1] = "loop"
     /\ i'[1] = i[1] + 1
     /\ IsMappingLine(LineAt(Lines1, i[1]))
     /\ UsesSink(stack[1], LineAt(Lines1, i[1]))) =>
        SetByLine(heap, heap', ContextOf(stack[1], LineAt(Lines1, i[1])).container,
                  LineAt(Lines1, i[1]))

\* C12: the keys of every Object are unique, and when an accepted line sets a
\* key its Object already has, the Object keeps a single entry for the key,
\* with the value the later line set.
C12_KeysUniqueLaterWins == []KeysUnique /\ [][LaterLineWins]_vars

\* `a: 1` and later `a: 0` were both accepted on the root, which holds the
\* single entry a = 0
C12_Witness ==
    /\ pc[1] = "done"
    /\ Len(Lines1) = 2
    /\ BeforeColon(Trim(Lines1[1])) = <<"a">>
    /\ AfterColon(Trim(Lines1[1])) = <<"1">>
    /\ AfterColon(Trim(Lines1[2])) = <<"0">>
    /\ Returned1.keys = <<<<"a">>>>
    /\ Returned1.vals = <<JsInt64(0)>>

\* ------------------------------------------------------------------------
\* C13
\* ------------------------------------------------------------------------
\* once the root exists the stack is non-empty and its bottom entry is the
\* root context
RootAtBottom ==
    root[1] > 0 =>
        /\ stack[1] # <<>>
        /\ stack[1][1] = [indent |-> -1, is_array |-> FALSE, container |-> root[1]]
        /\ ~heap[root[1]].is_array

\* the number of entries of stk left by the pops of a line of indentation
\* indent: up to the topmost entry whose indent is less, the bottom one at least
Kept(stk, indent) == SetMax({n \in 1..Len(stk) : n = 1 \/ stk[n].indent < indent})

\* the step over a non-blank line keeps the entries up to the topmost one
\* whose indent is strictly less than the indentation of the line, which is
\* the top after the pop phase; what the step leaves above it are contexts of
\* containers the line created
TopBelowLine ==
    (/\ pc[1] = "loop"
     /\ i'[1] = i[1] + 1
     /\ ~IsBlank(LineAt(Lines1, i[1]))) =>
        /\ Len(stack'[1]) >= Kept(stack[1], LeadingIndent(LineAt(Lines1, i[1])))
        /\ \A d \in 1..Len(stack'[1]) :
              IF d <= Kept(stack[1], LeadingIndent(LineAt(Lines1, i[1])))
              THEN stack'[1][d] = stack[1][d]
              ELSE stack'[1][d].container > Len(heap)
        /\ stack[1][Kept(stack[1], LeadingIndent(LineAt(Lines1, i[1])))].indent
              < LeadingIndent(LineAt(Lines1, i[1]))

\* C13: in every state of a parse that has its root, the context stack is
\* non-empty and its bottom entry is the root context (indent -1, Object,
\* container root), which no pop phase removes; and right after the pop
\* phase of a non-blank line the top context's indent is strictly less than
\* the indentation of the line.
C13_StackShape == []RootAtBottom /\ [][TopBelowLine]_vars

\* the second `key:` line in a row was handled: its pop phase removed the
\* context of the first and it pushed its own
C13_Witness ==
    /\ pc[1] = "loop"
    /\ i[1] = 2
    /\ IsEmptyKey(Lines1[1])
    /\ IsEmptyKey(Lines1[2])
    /\ Len(stack[1]) = 2
    /\ stack[1][2].container = root[1] + 2

\* ------------------------------------------------------------------------
\* C14
\* ------------------------------------------------------------------------
\* the 0-based indices of the non-blank lines of ls after line k; none of
\* them is past the last line
LaterLines(ls, k) == {n \in (k + 1)..(Len(ls) - 1) : ~IsBlank(LineAt(ls, n))}

\* some non-blank line follows line k and the first one starts with a dash
DashFollows(ls, k) ==
    /\ LaterLines(ls, k) # {}
    /\ IsSeqItem(LineAt(ls, SetMin(LaterLines(ls, k))))

\* the indentation of the first non-blank line after line k, or that of
\* line k plus one when none follows
IndentBelow(ls, k) ==
    IF LaterLines(ls, k) # {}
    THEN LeadingIndent(LineAt(ls, SetMin(LaterLines(ls, k))))
    ELSE LeadingIndent(LineAt(ls, k)) + 1

\* the context a `key:` line at index k pushes for the container it created
PushedFor(ls, k, h) ==
    [indent |-> IndentBelow(ls, k), is_array |-> DashFollows(ls, k),
     container |-> Len(h) + 1]

\* the step over a `key:` line accepted in an Object context creates one
\* empty container, an Array exactly when a dash line follows, stores it
\* under the key, pushes its context on the stack the pops left, and moves
\* the line index by one; the lines are as before
EmptyValueStep ==
    (/\ pc[1] = "loop"
     /\ i'[1] = i[1] + 1
     /\ IsEmptyKey(LineAt(Lines1, i[1]))
     /\ UsesSink(stack[1], LineAt(Lines1, i[1]))) =>
        /\ Len(heap') = Len(heap) + 1
        /\ heap'[Len(heap')] = [is_array |-> DashFollows(Lines1, i[1]),
                                keys |-> <<>>, vals |-> <<>>]
        /\ Under(heap'[ContextOf(stack[1], LineAt(Lines1, i[1])).container],
                 BeforeColon(Trim(LineAt(Lines1, i[1])))) = JsRef(Len(heap'))
        /\ stack'[1] =
              Append(SubSeq(stack[1], 1,
                            Kept(stack[1], LeadingIndent(LineAt(Lines1, i[1])))),
                     PushedFor(Lines1, i[1], heap))
        /\ lines' = lines

\* C14: a `key:` line accepted in an Object context at line i stores under
\* key an empty Array if and only if a non-blank line exists after i and the
\* first such line starts with a dash, whatever its indentation, and an
\* empty Object otherwise; the context pushed has the indentation of that
\* first non-blank line, or that of line i plus one when none follows; the
\* lookahead looks at no index past the last line and changes neither the
\* lines, the line index, the stack nor the tree beyond this.
C14_Lookahead == [][EmptyValueStep]_vars

\* `key:`, a blank line, then an indented dash line: the key holds an empty
\* Array whose context has the indentation of the dash line
C14_Witness ==
    /\ pc[1] = "loop"
    /\ i[1] = 1
    /\ Len(Lines1) = 3
    /\ IsEmptyKey(Lines1[1])
    /\ IsBlank(Lines1[2])
    /\ IsSeqItem(Lines1[3])
    /\ LeadingIndent(Lines1[3]) = 1
    /\ stack[1] = <<[indent |-> -1, is_array |-> FALSE, container |-> root[1]],
                    [indent |-> 1, is_array |-> TRUE, container |-> root[1] + 1]>>
    /\ heap[root[1] + 1].is_array

\* ------------------------------------------------------------------------
\* C15
\* ------------------------------------------------------------------------
\* line l does not fit the context it meets after its pop phase: a sequence
\* item in an Object, or a mapping line in an Array
Mismatched(stk, l) ==
    /\ ~IsBlank(l)
    /\ \/ IsSeqItem(l) /\ ~ContextOf(stk, l).is_array
       \/ IsMappingLine(l) /\ ContextOf(stk, l).is_array

\* the step over a mismatched line changes nothing but the stack, which
\* loses the entries its pop phase removes, and moves on to the next line
MismatchedStep ==
    (/\ pc[1] = "loop"
     /\ i[1] < Len(Lines1)
     /\ Mismatched(stack[1], LineAt(Lines1, i[1]))) =>
        /\ heap' = heap
        /\ stack'[1] = SubSeq(stack[1], 1,
                              Kept(stack[1], LeadingIndent(LineAt(Lines1, i[1]))))
        /\ pc'[1] = "loop"
        /\ exception' = exception
        /\ ret' = ret
        /\ i'[1] = i[1] + 1

\* C15: a line whose syntax does not fit the current context after the pop
\* phase (a sequence item when the context is an Object, a mapping line when
\* it is an Array) is skipped: it adds nothing to the tree, pushes no
\* context and reports no error; the pops of its own pop phase are its only
\* effect on the state.
C15_MismatchSkipped == [][MismatchedStep]_vars

\* a dash line under `key:` was skipped: its pop phase removed the Array
\* context, the Array is empty and the parse goes on
C15_Witness ==
    /\ pc[1] = "loop"
    /\ i[1] = 2
    /\ IsEmptyKey(Lines1[1])
    /\ IsSeqItem(Lines1[2])
    /\ stack[1] = <<[indent |-> -1, is_array |-> FALSE, container |-> root[1]]>>
    /\ heap[root[1] + 1] = [is_array |-> TRUE, keys |-> <<>>, vals |-> <<>>]
    /\ ~exception[1]

\* ------------------------------------------------------------------------
\* C16
\* ------------------------------------------------------------------------
NotBlank(l) == ~IsBlank(l)

\* the outcome of the loop body in which no napi call failed
Unfailed(outs) == CHOOSE out \in outs : ~out.failed

\* the heap a parse of the lines ls leaves when no napi call fails, from
\* line k, stack stk and heap h on
RECURSIVE HeapFrom(_, _, _, _)
HeapFrom(ls, k, stk, h) ==
    IF k >= Len(ls) THEN h
    ELSE HeapFrom(ls, k + 1, Unfailed(LoopBody(ls, k, stk, h)).stack,
                  Unfailed(LoopBody(ls, k, stk, h)).heap)

\* the tree a parse of the lines ls returns when no napi call fails
TreeOf(ls) == Tree(HeapFrom(ls, 0, RootStack(1), <<NewContainer(FALSE)>>), JsRef(1))

\* what the lookahead from line k + 1 on is to return: the first non-blank
\* line after line k, if any
FirstLater(ls, k) ==
    [found |-> LaterLines(ls, k) # {},
     indent |-> IF LaterLines(ls, k) # {} THEN IndentBelow(ls, k) ELSE 0,
     starts_with_dash |-> DashFollows(ls, k)]

\* the lookahead never returns a blank line, and the tree returned is the
\* tree of the same lines with the blank ones removed
BlankLinesInvisible ==
    /\ pc[1] \in {"loop", "done"} =>
          \A k \in 0..(Len(Lines1) - 1) : PeekNextLine(Lines1, k + 1) = FirstLater(Lines1, k)
    /\ pc[1] = "done" => Returned1 = TreeOf(SelectSeq(Lines1, NotBlank))

\* the step over a blank line changes neither the stack nor the heap
BlankStep ==
    (/\ pc[1] = "loop"
     /\ i[1] < Len(Lines1)
     /\ IsBlank(LineAt(Lines1, i[1]))) =>
        /\ stack' = stack
        /\ heap' = heap
        /\ pc' = pc
        /\ exception' = exception
        /\ i'[1] = i[1] + 1

\* C16: blank lines (empty or of white space only) are invisible to the
\* tree builder: the step over one changes neither the context stack nor
\* the tree, the lookahead never returns one, and the result of a parse is
\* the result of the parse of the same lines without the blank ones, so
\* that adding or removing blank lines anywhere leaves the result unchanged.
C16_BlankLinesInvisible == []BlankLinesInvisible /\ [][BlankStep]_vars

\* a finished parse of `key:`, a line of white space and a `key: value`
\* line, both keys in the result
C16_Witness ==
    /\ pc[1] = "done"
    /\ Len(Lines1) = 3
    /\ IsEmptyKey(Lines1[1])
    /\ IsBlank(Lines1[2])
    /\ Lines1[2] # <<>>
    /\ IsKeyValue(Lines1[3])
    /\ Len(Returned1.keys) = 2

\* ------------------------------------------------------------------------
\* C17
\* ------------------------------------------------------------------------
\* the call has returned, with the root or with nullptr after a failed napi
\* call
Terminated == pc[1] \in {"done", "error"}

\* a call that returned the tree had its line index past the last line, and
\* returned the container of the bottom context; a call ends otherwise only
\* with a napi call failed
ReturnedAtEnd ==
    /\ pc[1] = "done" =>
          /\ i[1] = Len(Lines1)
          /\ ~exception[1]
          /\ ret[1] = JsRef(stack[1][1].container)
    /\ pc[1] = "error" => exception[1] /\ ret[1] = NullPtr

\* a step of the loop handles the line at the line index and moves the
\* index to the next line, or ends the call and leaves the index; the index
\* is never past the end; the pops of the step leave the bottom context
LinesInOrder ==
    pc[1] = "loop" =>
        /\ i[1] <= Len(Lines1)
        /\ \/ pc'[1] = "loop" /\ i[1] < Len(Lines1) /\ i'[1] = i[1] + 1
           \/ pc'[1] = "error" /\ i[1] < Len(Lines1) /\ i'[1] = i[1]
           \/ pc'[1] = "done" /\ i[1] = Len(Lines1) /\ i'[1] = i[1]
        /\ Len(stack[1]) - Len(stack'[1]) <= Len(stack[1]) - 1
        /\ stack'[1][1] = stack[1][1]
        /\ lines' = lines

\* C17: every parse terminates: the lines are handled at the indices 0 to
\* n - 1 in increasing order, one step each; a pop phase removes at most all
\* entries but the bottom one; and a parse in which no napi call fails
\* reaches the line index n and returns the container of the bottom (root)
\* context.
C17_Terminates == <>Terminated /\ []ReturnedAtEnd /\ [][LinesInOrder]_vars

\* a finished parse of two `key:` lines, the second of which popped the
\* context the first one pushed
C17_Witness ==
    /\ pc[1] = "done"
    /\ i[1] = 2
    /\ Len(Lines1) = 2
    /\ \A k \in 1..2 : IsEmptyKey(Lines1[k])
    /\ Len(heap) = root[1] + 2
    /\ ret[1] = JsRef(root[1])

\* ------------------------------------------------------------------------
\* C18
\* ------------------------------------------------------------------------
\* the stack holds the root context and at most one pushed context
StackAtMostTwo == Len(stack[1]) <= 2

\* a pushed context has the indentation of the non-blank line that comes
\* next, when there is one
PushedAtNextIndent ==
    (/\ pc[1] = "loop"
     /\ Len(stack[1]) = 2
     /\ PeekNextLine(Lines1, i[1]).found) =>
        stack[1][2].indent = PeekNextLine(Lines1, i[1]).indent

\* the pop phase of a non-blank line leaves the root context alone on the
\* stack; a context above it after the step is of a container the line
\* created; a `key: value` line accepted without a failed napi call sets
\* its key on the root Object and pushes nothing
RootAloneAfterPop ==
    (/\ pc[1] = "loop"
     /\ i[1] < Len(Lines1)
     /\ ~IsBlank(LineAt(Lines1, i[1]))) =>
        /\ PopPhase(stack[1], LeadingIndent(LineAt(Lines1, i[1])))
              = <<Context(-1, FALSE, root[1])>>
        /\ Len(stack'[1]) = 2 => stack'[1][2].container = Len(heap) + 1
        /\ (IsKeyValue(LineAt(Lines1, i[1])) /\ pc'[1] = "loop") =>
              /\ SetByLine(heap, heap', root[1], LineAt(Lines1, i[1]))
              /\ stack'[1] = <<Context(-1, FALSE, root[1])>>

\* C18: a context pushed with the lookahead indentation is popped by the pop
\* phase of the very next non-blank line, whose indentation equals the
\* indent of the context: right after the pop phase of every non-blank line
\* the stack holds only the root context, the stack never holds more than
\* two entries, and every accepted `key: value` entry is set on the root
\* Object.
C18_OnlyRootAfterPop ==
    /\ [](StackAtMostTwo /\ PushedAtNextIndent)
    /\ [][RootAloneAfterPop]_vars

\* a finished parse of `K:` and a deeper `a: 1`: the context of K was popped
\* by the deeper line, and the root holds both keys
C18_Witness ==
    /\ pc[1] = "done"
    /\ Len(Lines1) = 2
    /\ IsEmptyKey(Lines1[1])
    /\ IsKeyValue(Lines1[2])
    /\ LeadingIndent(Lines1[2]) > LeadingIndent(Lines1[1])
    /\ Returned1.keys = <<BeforeColon(Trim(Lines1[1])), BeforeColon(Trim(Lines1[2]))>>
    /\ Len(stack[1]) = 1

\* ------------------------------------------------------------------------
\* C19
\* ------------------------------------------------------------------------
\* the context a non-blank line meets after its pop phase is not an Array
NoArrayCurrent ==
    (/\ pc[1] = "loop"
     /\ i[1] < Len(Lines1)
     /\ ~IsBlank(LineAt(Lines1, i[1]))) =>
        ~ContextOf(stack[1], LineAt(Lines1, i[1])).is_array

\* every Array of the heap is empty
ArraysEmpty ==
    \A id \in 1..Len(heap) :
        heap[id].is_array => heap[id].keys = <<>> /\ heap[id].vals = <<>>

\* the step over a line that starts with `-` does its pops and nothing else:
\* it makes no napi call, so it cannot fail, and it leaves the heap
DashSkipped ==
    (/\ pc[1] = "loop"
     /\ i[1] < Len(Lines1)
     /\ IsSeqItem(LineAt(Lines1, i[1]))) =>
        /\ stack'[1] = PopPhase(stack[1], LeadingIndent(LineAt(Lines1, i[1])))
        /\ heap' = heap
        /\ pc'[1] = "loop"
        /\ exception' = exception
        /\ i'[1] = i[1] + 1

\* C19: no sequence-item line is ever processed with an Array as the current
\* context: every line that starts with `-`, a `---` document marker
\* included, is skipped, the three sequence-item branches (bare dash,
\* `- key:`, `- key: value` or `- scalar`) are never entered, and every
\* Array of every parse result is empty.
C19_DashLinesSkipped ==
    /\ [](NoArrayCurrent /\ ArraysEmpty)
    /\ [][DashSkipped]_vars

\* a finished parse of `---`, `K:` and a `- key: value` item: the result
\* holds K alone, with an empty Array
C19_Witness ==
    /\ pc[1] = "done"
    /\ Len(Lines1) = 3
    /\ Trim(Lines1[1]) = <<"-", "-", "-">>
    /\ IsEmptyKey(Lines1[2])
    /\ IsKeyedItem(Lines1[3])
    /\ Returned1.keys = <<BeforeColon(Trim(Lines1[2]))>>
    /\ IsArray(Returned1.vals[1])
    /\ Returned1.vals[1].vals = <<>>

\* ------------------------------------------------------------------------
\* C20
\* ------------------------------------------------------------------------
\* no container holds Null (or the nullptr of a failed napi call), and the
\* call does not return Null
NoNull ==
    /\ \A id \in 1..Len(heap) :
          \A d \in 1..Len(heap[id].vals) : heap[id].vals[d] \notin {JsNull, NullPtr}
    /\ ret[1] # JsNull

\* the value stored by the step over a mapping line with a colon, accepted
\* without a failed napi call: for an empty value text a new container that
\* is empty, else what the scalar inferencer makes of the text, which is
\* not empty, and so not Null
EmptyValueIsContainer ==
    (/\ pc[1] = "loop"
     /\ pc'[1] = "loop"
     /\ i'[1] = i[1] + 1
     /\ IsMappingLine(LineAt(Lines1, i[1]))
     /\ UsesSink(stack[1], LineAt(Lines1, i[1]))) =>
        IF AfterColon(Trim(LineAt(Lines1, i[1]))) = <<>>
        THEN /\ Len(heap') = Len(heap) + 1
             /\ heap'[Len(heap')] \in {NewContainer(FALSE), NewContainer(TRUE)}
             /\ Under(heap'[ContextOf(stack[1], LineAt(Lines1, i[1])).container],
                      BeforeColon(Trim(LineAt(Lines1, i[1])))) = JsRef(Len(heap'))
        ELSE /\ Len(heap') = Len(heap)
             /\ Under(heap'[ContextOf(stack[1], LineAt(Lines1, i[1])).container],
                      BeforeColon(Trim(LineAt(Lines1, i[1]))))
                   = ParseScalarToJs(AfterColon(Trim(LineAt(Lines1, i[1]))), TRUE)
             /\ ParseScalarToJs(AfterColon(Trim(LineAt(Lines1, i[1]))), TRUE) # JsNull

\* C20: no parse result contains a Null value: the tree builder hands the
\* scalar inferencer only non-empty text, and an accepted entry whose value
\* text is empty always receives a new empty Object or Array, also when the
\* next non-blank line is a sibling or there is no next line.
C20_NoNull == []NoNull /\ [][EmptyValueIsContainer]_vars

\* a finished parse of `K:`, a sibling `key: value` and a last `K:`: K holds
\* an empty Object, made for the last line
C20_Witness ==
    /\ pc[1] = "done"
    /\ Len(Lines1) = 3
    /\ IsEmptyKey(Lines1[1])
    /\ IsKeyValue(Lines1[2])
    /\ LeadingIndent(Lines1[2]) = LeadingIndent(Lines1[1])
    /\ IsEmptyKey(Lines1[3])
    /\ Len(Returned1.keys) = 2
    /\ Returned1.vals[1] = NewContainer(FALSE)
    /\ heap[root[1]].vals[1] = JsRef(root[1] + 2)

====
